---- MODULE Spec2Model ----
(***************************************************************************)
(* MooveMoney: the on-ledger batch transfer module (sources/move_money.move)*)
(* and the off-ledger sending script (scripts/send_multiple.ts).           *)
(*                                                                         *)
(* Spec     : two senders each submit one transaction that calls an entry  *)
(*            function of moove_money with arbitrary arguments; the        *)
(*            ledger executes every transaction as one step.               *)
(* OrchSpec : one run of sendMoveToMultiple of send_multiple.ts against    *)
(*            the ledger, with other accounts registering concurrently.    *)
(***************************************************************************)
EXTENDS Integers, Sequences, FiniteSets, TLC

(***************************************************************************)
(* Bounds of the model.                                                    *)
(***************************************************************************)
\* Longest recipients / amounts vector that is enumerated entry by entry.
MaxLen == 2
\* Width of the model's u64: Move aborts on overflow, so the width matters.
U64Bits == 10
\* The largest count given to the create-accounts script (besides 11).
MaxCount == 2

MAX_U64 == 2^U64Bits - 1

(***************************************************************************)
(* Constants of moove_money.                                               *)
(***************************************************************************)
EVECTOR_LENGTH_MISMATCH == 1
EEMPTY_RECIPIENTS == 2
EBATCH_SIZE_EXCEEDED == 3
MAX_BATCH_SIZE == 100
\* waitForAccountCreation(address, maxRetries = 30) of the create-accounts script.
maxRetries == 30

\* std::error::invalid_argument(r): category 0x1 in the third byte (the
\* tests expect 0x10002 = 2 | 0x10000 and 0x10001 = 1 | 0x10000).
invalid_argument(r) == 65536 + r

(***************************************************************************)
(* Inputs.                                                                 *)
(***************************************************************************)
Accounts == {"A", "B", "C"}
\* The accounts that sign batch transactions.
Senders == {"A", "B"}
\* Amounts of the vectors that are enumerated entry by entry.
Amounts == {0, 100}
\* The amounts of test_send_to_multiple.
TestVectors == {<<100, 200>>}
\* Amount of the entries of the long (around MAX_BATCH_SIZE) vectors.
PadAmounts == {0, 10}
\* Amount vectors whose sum does not fit the u64 of the model.
BigVectors == {<<600, 600>>, <<MAX_U64, 100>>}
\* Amounts per recipient of send_equal_amounts.
EqualAmounts == {0, 10, 100, 600}

SeqsUpTo(S, n) == UNION {[1..k -> S] : k \in 0..n}
Repeat(x, n) == [k \in 1..n |-> x]

LongLens == {MAX_BATCH_SIZE, MAX_BATCH_SIZE + 1}
Lens == (0..MaxLen) \cup LongLens

RecipientVectors ==
    SeqsUpTo(Accounts, MaxLen) \cup {Repeat(r, n) : r \in {"B", "C"}, n \in LongLens}

\* The <<recipients, amounts>> arguments of send_move_to_multiple: every pair
\* of vectors of equal length up to MaxLen, the amounts of the module's test
\* to every two recipients, long vectors of one entry repeated, vectors with
\* an overflowing total, and vectors of every combination of unequal lengths.
MatchedRequests ==
    UNION {{<<r, a>> : r \in [1..k -> Accounts], a \in [1..k -> Amounts]} : k \in 0..MaxLen}
LongRequests ==
    {<<Repeat(r, n), Repeat(a, n)>> : r \in {"B", "C"}, a \in PadAmounts, n \in LongLens}
TestRequests ==
    {<<r, a>> : r \in [1..2 -> Accounts], a \in TestVectors}
BigRequests ==
    {<<r, a>> : r \in [1..2 -> {"A", "B"}], a \in BigVectors}
MismatchedRequests ==
    {<<Repeat("B", n), Repeat(100, m)>> : n \in Lens, m \in Lens} \
        {<<Repeat("B", n), Repeat(100, n)>> : n \in Lens}
Requests ==
    MatchedRequests \cup TestRequests \cup LongRequests \cup BigRequests
        \cup MismatchedRequests

\* The arguments calculate_total_amount is evaluated on (with its test's).
CalcVectors ==
    SeqsUpTo(Amounts, MaxLen) \cup TestVectors \cup BigVectors \cup {<<100, 200, 300>>}

(***************************************************************************)
(* State.                                                                  *)
(***************************************************************************)
VARIABLES
    registered,   \* registered[a]: a has published CoinStore<AptosCoin>
    balance,      \* balance[a]: the coin value of a's CoinStore
    events,       \* the BatchTransferEvent records emitted, oldest first
    txDone,       \* txDone[s]: sender s has had its transaction executed
    succeeded,    \* number of batch invocations that committed
    last,         \* the last call: function, arguments, outcome, state before
    orch,         \* the run of sendMoveToMultiple of scripts/send_multiple.ts
    others        \* the other runs of the script in progress, suspended at an await

NoAbort == [location |-> "none"]
SelfAbort(code) == [location |-> "Self", code |-> code]
CoinAbort(reason) == [location |-> "coin", reason |-> reason]
ArithmeticAbort == [location |-> "vm", reason |-> "ARITHMETIC_ERROR"]

\* The state a Move function runs on: the ledger as the transaction sees it,
\* the abort raised so far (if any), the coin transfers done and the value
\* returned.
VmState(reg, bal, evs) ==
    [registered |-> reg, balance |-> bal, events |-> evs,
     status |-> "ok", abort |-> NoAbort, transfers |-> <<>>, ret |-> 0]

Abort(st, a) == [st EXCEPT !.status = "abort", !.abort = a]

BatchTransferEvent(sender, num_recipients, total_amount) ==
    [sender |-> sender, num_recipients |-> num_recipients,
     total_amount |-> total_amount]

\* The transfer that credits the recipient from the balance read before the
\* withdrawal.
coin_transfer_stale_credit(st, from, to, amount) ==
    IF ~st.registered[from] THEN Abort(st, CoinAbort("ECOIN_STORE_NOT_PUBLISHED"))
    ELSE IF st.balance[from] < amount THEN Abort(st, CoinAbort("EINSUFFICIENT_BALANCE"))
    ELSE
        LET withdrawn == [st EXCEPT !.balance[from] = @ - amount] IN
        IF ~st.registered[to]
        THEN Abort(withdrawn, CoinAbort("ECOIN_STORE_NOT_PUBLISHED"))
        ELSE IF st.balance[to] + amount > MAX_U64
        THEN Abort(withdrawn, ArithmeticAbort)
        ELSE [withdrawn EXCEPT
                 !.balance[to] = st.balance[to] + amount,
                 !.transfers = Append(@, [from |-> from, to |-> to, amount |-> amount])]

\* The transfer that publishes the coin store of a recipient that has none.
coin_transfer_registering(st, from, to, amount) ==
    IF ~st.registered[from] THEN Abort(st, CoinAbort("ECOIN_STORE_NOT_PUBLISHED"))
    ELSE IF st.balance[from] < amount THEN Abort(st, CoinAbort("EINSUFFICIENT_BALANCE"))
    ELSE
        LET withdrawn == [st EXCEPT !.balance[from] = @ - amount] IN
        IF withdrawn.balance[to] + amount > MAX_U64
        THEN Abort(withdrawn, ArithmeticAbort)
        ELSE [withdrawn EXCEPT
                 !.registered[to] = TRUE,
                 !.balance[to] = @ + amount,
                 !.transfers = Append(@, [from |-> from, to |-> to, amount |-> amount])]

(***************************************************************************)
(* aptos_framework::coin::transfer<AptosCoin>(sender, recipient, amount),  *)
(* as move_money.move documents it: withdraw from the sender's store       *)
(* (EINSUFFICIENT_BALANCE), deposit into the recipient's store             *)
(* (ECOIN_STORE_NOT_PUBLISHED).                                            *)
(***************************************************************************)
coin_transfer(st, from, to, amount) ==
    IF ~st.registered[from] THEN Abort(st, CoinAbort("ECOIN_STORE_NOT_PUBLISHED"))
    ELSE IF st.balance[from] < amount THEN Abort(st, CoinAbort("EINSUFFICIENT_BALANCE"))
    ELSE
        LET withdrawn == [st EXCEPT !.balance[from] = @ - amount] IN
        IF ~st.registered[to]
        THEN Abort(withdrawn, CoinAbort("ECOIN_STORE_NOT_PUBLISHED"))
        ELSE IF withdrawn.balance[to] + amount > MAX_U64
        THEN Abort(withdrawn, ArithmeticAbort)
        ELSE [withdrawn EXCEPT
                 !.balance[to] = @ + amount,
                 !.transfers = Append(@, [from |-> from, to |-> to, amount |-> amount])]

(***************************************************************************)
(* send_move_to_multiple, lines 71-78: the total for the event.  u64       *)
(* addition aborts the transaction when it overflows.                      *)
(***************************************************************************)
\* Iterations lo .. hi-1 of the loop, in order, stopping at an abort; the
\* range is halved so that a vector of MAX_BATCH_SIZE entries does not nest
\* MAX_BATCH_SIZE deep, and the state after the first half is bound as a value
\* (left) before the second half runs on it.
RECURSIVE TotalLoop(_, _, _, _)
TotalLoop(st, amounts, lo, hi) ==
    IF st.status # "ok" \/ ~(lo < hi) THEN st
    ELSE IF hi = lo + 1
    THEN LET amount == amounts[lo + 1] IN
         IF st.ret + amount > MAX_U64 THEN Abort(st, ArithmeticAbort)
         ELSE [st EXCEPT !.ret = @ + amount]
    ELSE LET mid == (lo + hi) \div 2 IN
         CHOOSE end \in {IF left.status # "ok" THEN left
                         ELSE TotalLoop(left, amounts, mid, hi) :
                            left \in {TotalLoop(st, amounts, lo, mid)}} : TRUE

\* The transfer without the test of the amount.
TransferEntryAlways(st, sender, recipient, amount) ==
    coin_transfer(st, sender, recipient, amount)

\* lines 86-89: only transfer if amount is greater than 0.
TransferEntry(st, sender, recipient, amount) ==
    IF amount > 0 THEN coin_transfer(st, sender, recipient, amount) ELSE st

\* Iterations lo .. hi-1 of the transfer loop, in order; it stops at the
\* first transfer that aborts.
RECURSIVE TransferRange(_, _, _, _, _, _)
TransferRange(st, sender, recipients, amounts, lo, hi) ==
    IF st.status # "ok" \/ ~(lo < hi) THEN st
    ELSE IF hi = lo + 1
    THEN TransferEntry(st, sender, recipients[lo + 1], amounts[lo + 1])
    ELSE LET mid == (lo + hi) \div 2 IN
         CHOOSE end \in {IF left.status # "ok" THEN left
                         ELSE TransferRange(left, sender, recipients, amounts, mid, hi) :
                            left \in {TransferRange(st, sender, recipients, amounts,
                                                    lo, mid)}} : TRUE

\* The loop with its last iteration left out.
TransferLoopShort(st, sender, recipients, amounts, num_recipients) ==
    TransferRange(st, sender, recipients, amounts, 0, num_recipients - 1)

\* lines 80-92: i = 0; while (i < num_recipients) { ...; i = i + 1 }.
TransferLoop(st, sender, recipients, amounts, num_recipients) ==
    TransferRange(st, sender, recipients, amounts, 0, num_recipients)

\* The event left out.
EmitNoEvent(st, sender_addr, num_recipients, total_amount) == st

\* lines 94-99.
EmitBatchEvent(st, sender_addr, num_recipients, total_amount) ==
    [st EXCEPT !.events =
        Append(@, BatchTransferEvent(sender_addr, num_recipients, total_amount))]

\* The assertions with the length test first.
ValidateBatchLengthFirst(num_recipients, num_amounts) ==
    IF ~(num_recipients = num_amounts)
    THEN SelfAbort(invalid_argument(EVECTOR_LENGTH_MISMATCH))
    ELSE IF ~(num_recipients > 0)
    THEN SelfAbort(invalid_argument(EEMPTY_RECIPIENTS))
    ELSE IF ~(num_recipients <= MAX_BATCH_SIZE)
    THEN SelfAbort(invalid_argument(EBATCH_SIZE_EXCEEDED))
    ELSE NoAbort

\* The assertions with < for <= in the size test.
ValidateBatchStrictSize(num_recipients, num_amounts) ==
    IF ~(num_recipients > 0)
    THEN SelfAbort(invalid_argument(EEMPTY_RECIPIENTS))
    ELSE IF ~(num_recipients < MAX_BATCH_SIZE)
    THEN SelfAbort(invalid_argument(EBATCH_SIZE_EXCEEDED))
    ELSE IF ~(num_recipients = num_amounts)
    THEN SelfAbort(invalid_argument(EVECTOR_LENGTH_MISMATCH))
    ELSE NoAbort

\* The assertions with the error constant of the size test in the length test.
ValidateBatchWrongCode(num_recipients, num_amounts) ==
    IF ~(num_recipients > 0)
    THEN SelfAbort(invalid_argument(EEMPTY_RECIPIENTS))
    ELSE IF ~(num_recipients <= MAX_BATCH_SIZE)
    THEN SelfAbort(invalid_argument(EBATCH_SIZE_EXCEEDED))
    ELSE IF ~(num_recipients = num_amounts)
    THEN SelfAbort(invalid_argument(EBATCH_SIZE_EXCEEDED))
    ELSE NoAbort

\* lines 56-69: the three assertions, in the order of the code; the abort
\* of the first one that fails, or NoAbort.
ValidateBatch(num_recipients, num_amounts) ==
    IF ~(num_recipients > 0)
    THEN SelfAbort(invalid_argument(EEMPTY_RECIPIENTS))
    ELSE IF ~(num_recipients <= MAX_BATCH_SIZE)
    THEN SelfAbort(invalid_argument(EBATCH_SIZE_EXCEEDED))
    ELSE IF ~(num_recipients = num_amounts)
    THEN SelfAbort(invalid_argument(EVECTOR_LENGTH_MISMATCH))
    ELSE NoAbort

(***************************************************************************)
(* public entry fun send_move_to_multiple(sender, recipients, amounts).    *)
(* The result is the VM state at the end of the function or at the abort.  *)
(***************************************************************************)
send_move_to_multiple(st, sender, recipients, amounts) ==
    LET num_recipients == Len(recipients)
        num_amounts == Len(amounts)
        checked == ValidateBatch(num_recipients, num_amounts)
    IN
    IF checked # NoAbort THEN Abort(st, checked)
    ELSE
        LET summed == TotalLoop([st EXCEPT !.ret = 0], amounts, 0, num_recipients) IN
        IF summed.status # "ok" THEN summed
        ELSE
            LET total_amount == summed.ret
                moved == TransferLoop([summed EXCEPT !.ret = 0], sender, recipients,
                                      amounts, num_recipients)
            IN
            IF moved.status # "ok" THEN moved
            ELSE EmitBatchEvent(moved, sender, num_recipients, total_amount)

\* lines 131-137: the vector of equal amounts.
\* PushAmounts(a, lo, hi): what iterations lo .. hi-1 push, in order.
RECURSIVE PushAmounts(_, _, _)
PushAmounts(amount_per_recipient, lo, hi) ==
    IF ~(lo < hi) THEN <<>>
    ELSE IF hi = lo + 1 THEN <<amount_per_recipient>>
    ELSE LET mid == (lo + hi) \div 2 IN
         PushAmounts(amount_per_recipient, lo, mid)
             \o PushAmounts(amount_per_recipient, mid, hi)

\* send_equal_amounts with one amount too few pushed.
send_equal_amounts_short(st, sender, recipients, amount_per_recipient) ==
    LET num_recipients == Len(recipients) IN
    IF ~(num_recipients > 0)
    THEN Abort(st, SelfAbort(invalid_argument(EEMPTY_RECIPIENTS)))
    ELSE IF ~(num_recipients <= MAX_BATCH_SIZE)
    THEN Abort(st, SelfAbort(invalid_argument(EBATCH_SIZE_EXCEEDED)))
    ELSE send_move_to_multiple(st, sender, recipients,
                               PushAmounts(amount_per_recipient, 0, num_recipients - 1))

(***************************************************************************)
(* public entry fun send_equal_amounts(sender, recipients, amount).        *)
(***************************************************************************)
send_equal_amounts(st, sender, recipients, amount_per_recipient) ==
    LET num_recipients == Len(recipients) IN
    IF ~(num_recipients > 0)
    THEN Abort(st, SelfAbort(invalid_argument(EEMPTY_RECIPIENTS)))
    ELSE IF ~(num_recipients <= MAX_BATCH_SIZE)
    THEN Abort(st, SelfAbort(invalid_argument(EBATCH_SIZE_EXCEEDED)))
    ELSE send_move_to_multiple(st, sender, recipients,
                               PushAmounts(amount_per_recipient, 0, num_recipients))

(***************************************************************************)
(* public fun calculate_total_amount(amounts): u64.                        *)
(***************************************************************************)
RECURSIVE CalcLoop(_, _, _, _)
CalcLoop(st, amounts, lo, hi) ==
    IF st.status # "ok" \/ ~(lo < hi) THEN st
    ELSE IF hi = lo + 1
    THEN IF st.ret + amounts[lo + 1] > MAX_U64 THEN Abort(st, ArithmeticAbort)
         ELSE [st EXCEPT !.ret = @ + amounts[lo + 1]]
    ELSE LET mid == (lo + hi) \div 2 IN
         CHOOSE end \in {IF left.status # "ok" THEN left
                         ELSE CalcLoop(left, amounts, mid, hi) :
                            left \in {CalcLoop(st, amounts, lo, mid)}} : TRUE

\* The fold started at the second element.
calculate_total_amount_from_one(st, amounts) ==
    CalcLoop([st EXCEPT !.ret = 0], amounts, 1, Len(amounts))

calculate_total_amount(st, amounts) ==
    CalcLoop([st EXCEPT !.ret = 0], amounts, 0, Len(amounts))

(***************************************************************************)
(* The ledger runs a transaction as one unit: the writes, the events and   *)
(* the transfer records of a function that aborts are discarded.           *)
(***************************************************************************)
CommitPartial(pre, st) ==
    [registered |-> st.registered, balance |-> st.balance, events |-> st.events,
     transfers |-> st.transfers]

Commit(pre, st) ==
    IF st.status = "ok"
    THEN [registered |-> st.registered, balance |-> st.balance,
          events |-> st.events, transfers |-> st.transfers]
    ELSE [registered |-> pre.registered, balance |-> pre.balance,
          events |-> pre.events, transfers |-> <<>>]

Ledger == [registered |-> registered, balance |-> balance, events |-> events]

\* What is recorded of a call: the function, its arguments (the amount per
\* recipient of send_equal_amounts as a vector of one), how it ended, the
\* coin transfers it committed and the ledger before it.
CallRecord(fn, sender, recipients, amounts, st, committed) ==
    [fn |-> fn, sender |-> sender, recipients |-> recipients, amounts |-> amounts,
     status |-> st.status, abort |-> st.abort, ret |-> st.ret,
     transfers |-> committed.transfers, pre |-> Ledger]

NoCall ==
    [fn |-> "none", sender |-> "A", recipients |-> <<>>, amounts |-> <<>>,
     status |-> "ok", abort |-> NoAbort, ret |-> 0, transfers |-> <<>>,
     pre |-> [registered |-> [a \in Accounts |-> FALSE],
              balance |-> [a \in Accounts |-> 0], events |-> <<>>]]

\* The script is not running.
NoRun == [pc |-> "idle"]

Init ==
    /\ registered \in {[a \in Accounts |-> a # "C"], [a \in Accounts |-> TRUE]}
    /\ balance = [a \in Accounts |-> IF a = "A" THEN 1000 ELSE 0]
    /\ events = <<>>
    /\ txDone = [s \in Senders |-> FALSE]
    /\ succeeded = 0
    /\ last = NoCall
    /\ orch = NoRun
    /\ others = <<>>

\* The ledger executes a transaction of sender that calls entry function fn;
\* st is the VM state the function ended in.
RunEntry(fn, sender, recipients, amounts, st) ==
    LET committed == Commit(Ledger, st) IN
    /\ txDone' = [txDone EXCEPT ![sender] = TRUE]
    /\ balance' = committed.balance
    /\ events' = committed.events
    /\ succeeded' = IF st.status = "ok" THEN succeeded + 1 ELSE succeeded
    /\ last' = CallRecord(fn, sender, recipients, amounts, st, committed)
    /\ registered' = committed.registered
    /\ UNCHANGED <<orch, others>>

SendMoveToMultiple ==
    \E sender \in Senders :
        /\ ~txDone[sender]
        /\ \E req \in Requests :
            LET recipients == req[1]
                amounts == req[2]
                st == send_move_to_multiple(VmState(registered, balance, events),
                                            sender, recipients, amounts)
            IN RunEntry("send_move_to_multiple", sender, recipients, amounts, st)

SendEqualAmounts ==
    \E sender \in Senders :
        /\ ~txDone[sender]
        /\ \E recipients \in RecipientVectors, amount \in EqualAmounts :
            LET st == send_equal_amounts(VmState(registered, balance, events),
                                         sender, recipients, amount)
            IN RunEntry("send_equal_amounts", sender, recipients, <<amount>>, st)

vars == <<registered, balance, events, txDone, succeeded, last, orch, others>>

Next ==
    \/ SendMoveToMultiple
    \/ SendEqualAmounts

Spec == Init /\ [][Next]_vars

(***************************************************************************)
(* CalcSpec: calculate_total_amount evaluated on a ledger, by any caller.  *)
(***************************************************************************)
CalcInit ==
    /\ registered \in [Accounts -> BOOLEAN]
    /\ balance \in {[a \in Accounts |-> IF registered[a] THEN b ELSE 0] : b \in {0, 700}}
    /\ events \in {<<>>, <<BatchTransferEvent("A", 2, 300)>>}
    /\ txDone = [s \in Senders |-> FALSE]
    /\ succeeded = Len(events)
    /\ last = NoCall
    /\ orch = NoRun
    /\ others = <<>>

CalculateTotalAmount ==
    \E amounts \in CalcVectors :
        LET st == calculate_total_amount(VmState(registered, balance, events), amounts)
            committed == Commit(Ledger, st)
        IN /\ last' = CallRecord("calculate_total_amount", "A", <<>>, amounts, st, committed)
           /\ balance' = committed.balance
           /\ events' = committed.events
           /\ registered' = committed.registered
           /\ UNCHANGED <<txDone, succeeded, orch, others>>

CalcSpec == CalcInit /\ [][CalculateTotalAmount]_vars

(***************************************************************************)
(* scripts/send_multiple.ts: one run of sendMoveToMultiple(recipients,     *)
(* amounts) by the account of the script, against the ledger.  Every await *)
(* of the script is a step; the ledger executes the submitted transactions *)
(* in steps of its own, and other accounts register meanwhile.             *)
(***************************************************************************)
\* The account of the script (Account.fromPrivateKey, line 29).
ScriptAccount == "A"

\* An address string: the account it names, with or without the "0x".
Addr(prefixed, body) == [prefixed |-> prefixed, body |-> body]
AddressStrings == {Addr(TRUE, a) : a \in Accounts} \cup {Addr(FALSE, "B")}
OrchAmounts == {0, 100}

\* The <<recipients, amounts>> arguments of sendMoveToMultiple: all vectors
\* up to MaxLen, of equal and of unequal lengths.
OrchRequests == SeqsUpTo(AddressStrings, MaxLen) \X SeqsUpTo(OrchAmounts, MaxLen)

\* Requests of MAX_BATCH_SIZE and of MAX_BATCH_SIZE + 1 entries.
OrchLongRequests ==
    {<<Repeat(Addr(TRUE, "B"), n), Repeat(0, n)>> : n \in LongLens}

\* The state of a run at its first statement.
NewRun(recipients, amounts) ==
    [pc |-> "start", recipients |-> recipients, amounts |-> amounts,
     i |-> 0, unregisteredRecipients |-> <<>>, answers |-> <<>>,
     error |-> "none", warned |-> FALSE,
     regTxn |-> "none", batchTxn |-> "none",
     built |-> FALSE, signed |-> FALSE,
     senderRegistered |-> "unknown", queries |-> 0, submitted |-> <<>>]

\* The payloads handed to aptos.transaction.submit.simple.
RegisterPayload == [function |-> "0x1::managed_coin::register"]
BatchPayload(recipients, amounts) ==
    [function |-> "moove_money::send_move_to_multiple",
     recipients |-> recipients, amounts |-> amounts]

\* addr.startsWith("0x") ? addr : `0x${addr}` (lines 46, 146, 186).
Normalize(addr) == IF addr.prefixed THEN addr ELSE Addr(TRUE, addr.body)

\* What the fullnode answers to getAccountResource(CoinStore) for an
\* account: the resource, a 404, or (at any time) another error.
CoinStoreResponses(acct) == {IF registered[acct] THEN "resource" ELSE "404", "error"}

\* isAccountRegisteredForCoin, lines 44-69, on the fullnode's response.
isAccountRegisteredForCoin(response) ==
    IF response = "resource" THEN "true"
    ELSE IF response = "404" THEN "false"
    ELSE "throw"

Throw(o, error) == [o EXCEPT !.pc = "thrown", !.error = error]

OrchInit ==
    /\ registered \in [Accounts -> BOOLEAN]
    /\ balance = [a \in Accounts |-> IF a = ScriptAccount /\ registered[a] THEN 100 ELSE 0]
    /\ events = <<>>
    /\ txDone = [s \in Senders |-> FALSE]
    /\ succeeded = 0
    /\ last = NoCall
    /\ \E request \in OrchRequests : orch = NewRun(request[1], request[2])
    /\ others = <<>>

\* lines 122-129: validate inputs.
ValidateInputs(o) ==
    IF Len(o.recipients) # Len(o.amounts) THEN Throw(o, "LengthMismatch")
    ELSE IF Len(o.recipients) = 0 THEN Throw(o, "NoRecipients")
    ELSE [o EXCEPT !.pc = "ensureSenderRegistered"]

Start ==
    /\ orch.pc = "start"
    /\ orch' = ValidateInputs(orch)
    /\ UNCHANGED <<registered, balance, events, txDone, succeeded, last, others>>

\* ensureSenderRegistered, lines 75-77: the query of the sender.
\* line 77 as `if (true)`.
SenderAnsweredAlwaysRegister(o, isRegistered) ==
    IF isRegistered = "throw" THEN Throw([o EXCEPT !.queries = @ + 1], "QueryError")
    ELSE [o EXCEPT !.pc = "register", !.queries = @ + 1,
                   !.senderRegistered = isRegistered]

\* lines 75-77: the run after the answer to the sender's query.
SenderAnswered(o, isRegistered) ==
    IF isRegistered = "throw" THEN Throw([o EXCEPT !.queries = @ + 1], "QueryError")
    ELSE IF isRegistered = "false"
    THEN [o EXCEPT !.pc = "register", !.queries = @ + 1,
                   !.senderRegistered = isRegistered]
    ELSE [o EXCEPT !.pc = "checkRecipients", !.queries = @ + 1,
                   !.senderRegistered = isRegistered]

EnsureSenderRegistered ==
    /\ orch.pc = "ensureSenderRegistered"
    /\ \E response \in CoinStoreResponses(ScriptAccount) :
        orch' = SenderAnswered(orch, isAccountRegisteredForCoin(response))
    /\ UNCHANGED <<registered, balance, events, txDone, succeeded, last, others>>

\* lines 80-99 without the await of lines 101-103: the run goes on to the
\* recipients while the registration is pending.
SubmitRegistrationNoWait ==
    /\ orch.pc = "register"
    /\ \E accepted \in BOOLEAN :
        orch' = IF accepted
                THEN [orch EXCEPT !.pc = "checkRecipients", !.regTxn = "pending",
                                  !.submitted = Append(@, RegisterPayload)]
                ELSE Throw(orch, "SubmitError")
    /\ UNCHANGED <<registered, balance, events, txDone, succeeded, last, others>>

\* lines 80-97: build, sign and submit managed_coin::register; the build or
\* the submission may be refused.
SubmitRegistration ==
    /\ orch.pc = "register"
    /\ \E accepted \in BOOLEAN :
        orch' = IF accepted
                THEN [orch EXCEPT !.pc = "waitRegistration", !.regTxn = "pending",
                                  !.submitted = Append(@, RegisterPayload)]
                ELSE Throw(orch, "SubmitError")
    /\ UNCHANGED <<registered, balance, events, txDone, succeeded, last, others>>

\* The ledger executes the registration: the sender's CoinStore is
\* published, or the transaction fails.
ExecuteRegistration ==
    /\ orch.pc # "idle" /\ orch.regTxn = "pending"
    /\ \E ok \in BOOLEAN :
        /\ orch' = [orch EXCEPT !.regTxn = IF ok THEN "success" ELSE "failed"]
        /\ registered' = IF ok THEN [registered EXCEPT ![ScriptAccount] = TRUE]
                         ELSE registered
    /\ UNCHANGED <<balance, events, txDone, succeeded, last, others>>

\* lines 101-105: waitForTransaction returns once the registration has
\* succeeded, and throws when it failed or did not settle in time.
WaitRegistration ==
    /\ orch.pc = "waitRegistration"
    /\ \E timeout \in BOOLEAN :
        orch' = IF orch.regTxn = "success" /\ ~timeout
                THEN [orch EXCEPT !.pc = "checkRecipients"]
                ELSE IF orch.regTxn = "failed" /\ ~timeout
                THEN Throw(orch, "TransactionFailed")
                ELSE Throw(orch, "WaitError")
    /\ UNCHANGED <<registered, balance, events, txDone, succeeded, last, others>>

\* lines 149-154 with a `break` after the first push.
RecordAnswerFirstOnly(o, normalizedRecipient, isRegistered) ==
    IF isRegistered = "false"
    THEN [o EXCEPT !.unregisteredRecipients = Append(@, normalizedRecipient),
                   !.answers = Append(@, isRegistered),
                   !.i = Len(o.recipients), !.queries = @ + 1]
    ELSE [o EXCEPT !.answers = Append(@, isRegistered), !.i = @ + 1,
                   !.queries = @ + 1]

\* lines 147-154: the answer of one recipient's query; an unregistered
\* recipient is pushed, normalized, to unregisteredRecipients.
RecordAnswer(o, normalizedRecipient, isRegistered) ==
    IF isRegistered = "false"
    THEN [o EXCEPT !.unregisteredRecipients = Append(@, normalizedRecipient),
                   !.answers = Append(@, isRegistered), !.i = @ + 1,
                   !.queries = @ + 1]
    ELSE [o EXCEPT !.answers = Append(@, isRegistered), !.i = @ + 1,
                   !.queries = @ + 1]

\* lines 157-164: after the loop.
AfterRecipients(o) ==
    IF Len(o.unregisteredRecipients) > 0 THEN Throw(o, "UnregisteredRecipients")
    ELSE [o EXCEPT !.pc = "checkBalance"]

\* lines 145-164 with the error of a query caught inside the loop: the
\* recipient is skipped.
CheckRecipientSkipError ==
    /\ orch.pc = "checkRecipients"
    /\ orch.i < Len(orch.recipients)
    /\ LET recipient == orch.recipients[orch.i + 1]
           normalizedRecipient == Normalize(recipient)
       IN \E response \in CoinStoreResponses(normalizedRecipient.body) :
           LET isRegistered == isAccountRegisteredForCoin(response)
               o == IF isRegistered = "throw"
                    THEN [orch EXCEPT !.i = @ + 1, !.queries = @ + 1]
                    ELSE RecordAnswer(orch, normalizedRecipient, isRegistered)
           IN orch' = IF o.i < Len(o.recipients) THEN o ELSE AfterRecipients(o)
    /\ UNCHANGED <<registered, balance, events, txDone, succeeded, last, others>>

\* lines 145-164: one iteration of the loop over the recipients (one query),
\* and, after the last one, the test of unregisteredRecipients.
CheckRecipient ==
    /\ orch.pc = "checkRecipients"
    /\ orch.i < Len(orch.recipients)
    /\ LET recipient == orch.recipients[orch.i + 1]
           normalizedRecipient == Normalize(recipient)
       IN \E response \in CoinStoreResponses(normalizedRecipient.body) :
           LET isRegistered == isAccountRegisteredForCoin(response)
               o == RecordAnswer(orch, normalizedRecipient, isRegistered)
           IN orch' = IF isRegistered = "throw"
                      THEN Throw([orch EXCEPT !.queries = @ + 1], "QueryError")
                      ELSE IF o.i < Len(o.recipients) THEN o
                      ELSE AfterRecipients(o)
    /\ UNCHANGED <<registered, balance, events, txDone, succeeded, last, others>>

\* amounts.reduce((sum, amount) => sum + amount, 0), line 169.
\* ReduceRange(amounts, sum, lo, hi): the accumulator after the callback has
\* run on the entries lo .. hi-1, in order; the range is halved so that
\* MAX_BATCH_SIZE entries do not nest MAX_BATCH_SIZE deep.
RECURSIVE ReduceRange(_, _, _, _)
ReduceRange(amounts, sum, lo, hi) ==
    IF ~(lo < hi) THEN sum
    ELSE IF hi = lo + 1 THEN sum + amounts[lo + 1]
    ELSE LET mid == (lo + hi) \div 2 IN
         CHOOSE end \in {ReduceRange(amounts, left, mid, hi) :
                            left \in {ReduceRange(amounts, sum, lo, mid)}} : TRUE

Reduce(amounts, sum) == ReduceRange(amounts, sum, 0, Len(amounts))

\* lines 166-178: the balance is read and compared with the total; an
\* insufficient balance or a failed query is caught and warned about.
\* lines 173-175 without the try/catch around them.
BalanceCheckedBlocking(o, answered, bal) ==
    LET totalAmount == Reduce(o.amounts, 0) IN
    IF answered /\ bal < totalAmount
    THEN Throw([o EXCEPT !.queries = @ + 1], "InsufficientBalance")
    ELSE [o EXCEPT !.pc = "build", !.warned = ~answered, !.queries = @ + 1]

\* lines 167-178: the run after the balance query, answered with bal or
\* failed; what the try block throws is caught and warned about.
BalanceChecked(o, answered, bal) ==
    LET totalAmount == Reduce(o.amounts, 0)
        caught == ~answered \/ bal < totalAmount
    IN [o EXCEPT !.pc = "build", !.warned = caught, !.queries = @ + 1]

CheckBalance ==
    /\ orch.pc = "checkBalance"
    /\ \E answered \in BOOLEAN :
        orch' = BalanceChecked(orch, answered, balance[ScriptAccount])
    /\ UNCHANGED <<registered, balance, events, txDone, succeeded, last, others>>

\* lines 180-190: aptos.transaction.build.simple for send_move_to_multiple.
BuildBatch ==
    /\ orch.pc = "build"
    /\ \E built \in BOOLEAN :
        orch' = IF built THEN [orch EXCEPT !.pc = "submit", !.built = TRUE]
                ELSE Throw(orch, "BuildError")
    /\ UNCHANGED <<registered, balance, events, txDone, succeeded, last, others>>

\* The arguments of the transaction, lines 185-188.
BatchRecipients(o) == [k \in 1..Len(o.recipients) |-> Normalize(o.recipients[k]).body]

\* lines 181-203 inside a loop over the recipients: one transaction for
\* each entry.
SubmittedPerRecipient(o, accepted) ==
    IF accepted
    THEN [o EXCEPT !.pc = "wait", !.signed = TRUE, !.batchTxn = "pending",
                   !.submitted = @ \o [k \in 1..Len(o.recipients) |->
                       BatchPayload(<<BatchRecipients(o)[k]>>, <<o.amounts[k]>>)]]
    ELSE Throw([o EXCEPT !.signed = TRUE], "SubmitError")

\* lines 192-203: the run after transaction.sign and submit.simple, which
\* the fullnode accepted or refused.
Submitted(o, accepted) ==
    IF accepted
    THEN [o EXCEPT !.pc = "wait", !.signed = TRUE, !.batchTxn = "pending",
                   !.submitted = Append(@, BatchPayload(BatchRecipients(o), o.amounts))]
    ELSE Throw([o EXCEPT !.signed = TRUE], "SubmitError")

SubmitBatch ==
    /\ orch.pc = "submit"
    /\ \E accepted \in BOOLEAN : orch' = Submitted(orch, accepted)
    /\ UNCHANGED <<registered, balance, events, txDone, succeeded, last, others>>

\* A ledger that executes the first entry of the batch as a transaction of
\* its own.
ExecuteBatchFirstOnly ==
    /\ orch.pc # "idle" /\ orch.batchTxn = "pending"
    /\ LET recipients == SubSeq(BatchRecipients(orch), 1, 1)
           amounts == SubSeq(orch.amounts, 1, 1)
           st == send_move_to_multiple(VmState(registered, balance, events),
                                       ScriptAccount, recipients, amounts)
           committed == Commit(Ledger, st)
       IN /\ registered' = committed.registered
          /\ balance' = committed.balance
          /\ events' = committed.events
          /\ succeeded' = IF st.status = "ok" THEN succeeded + 1 ELSE succeeded
          /\ last' = CallRecord("send_move_to_multiple", ScriptAccount, recipients,
                                amounts, st, committed)
          /\ orch' = [orch EXCEPT !.batchTxn = IF st.status = "ok" THEN "success"
                                               ELSE "failed"]
    /\ UNCHANGED <<txDone, others>>

\* The ledger executes the submitted batch transaction.
ExecuteBatch ==
    /\ orch.pc # "idle" /\ orch.batchTxn = "pending"
    /\ LET recipients == BatchRecipients(orch)
           st == send_move_to_multiple(VmState(registered, balance, events),
                                       ScriptAccount, recipients, orch.amounts)
           committed == Commit(Ledger, st)
       IN /\ registered' = committed.registered
          /\ balance' = committed.balance
          /\ events' = committed.events
          /\ succeeded' = IF st.status = "ok" THEN succeeded + 1 ELSE succeeded
          /\ last' = CallRecord("send_move_to_multiple", ScriptAccount, recipients,
                                orch.amounts, st, committed)
          /\ orch' = [orch EXCEPT !.batchTxn = IF st.status = "ok" THEN "success"
                                               ELSE "failed"]
    /\ UNCHANGED <<txDone, others>>

\* How aptos.waitForTransaction (line 211) can end: the transaction was
\* found executed, the wait timed out, or a status query failed.  Only an
\* executed transaction can be found executed.
WaitOutcomes(o) ==
    IF o.batchTxn = "pending" THEN {"timeout", "ioerror"}
    ELSE {"executed", "timeout", "ioerror"}

\* lines 210-235 with the catch block submitting again.
AwaitedRetry(o, outcome) ==
    IF outcome = "executed" /\ o.batchTxn = "success"
    THEN [o EXCEPT !.pc = "confirmed"]
    ELSE [o EXCEPT !.pc = "submit", !.error = "TransactionFailed"]

\* lines 215-217 without the test of executedTxn.success.
AwaitedUnchecked(o, outcome) ==
    IF outcome = "executed" THEN [o EXCEPT !.pc = "confirmed"]
    ELSE IF outcome = "timeout" THEN Throw(o, "WaitForTransactionError")
    ELSE Throw(o, "StatusQueryError")

\* lines 223-234 with every caught error rethrown as a failed transaction.
AwaitedAllFailed(o, outcome) ==
    IF outcome = "executed" /\ o.batchTxn = "success"
    THEN [o EXCEPT !.pc = "confirmed"]
    ELSE Throw(o, "TransactionFailed")

\* lines 208-235: the run after waitForTransaction.  A transaction that
\* succeeded is reported; one that failed is thrown as "Transaction failed"
\* (line 221); an error thrown by the wait itself is caught, logged and
\* thrown again as it is (line 234).
Awaited(o, outcome) ==
    IF outcome = "executed" /\ o.batchTxn = "success"
    THEN [o EXCEPT !.pc = "confirmed"]
    ELSE IF outcome = "executed"
    THEN Throw(o, "TransactionFailed")
    ELSE IF outcome = "timeout"
    THEN Throw(o, "WaitForTransactionError")
    ELSE Throw(o, "StatusQueryError")

WaitBatch ==
    /\ orch.pc = "wait"
    /\ \E outcome \in WaitOutcomes(orch) : orch' = Awaited(orch, outcome)
    /\ UNCHANGED <<registered, balance, events, txDone, succeeded, last, others>>

\* Another account registers itself for AptosCoin (npm run register-coin).
OtherRegisters ==
    /\ orch.pc \notin {"idle", "confirmed", "thrown"}
    /\ \E a \in Accounts \ {ScriptAccount} :
        /\ ~registered[a]
        /\ registered' = [registered EXCEPT ![a] = TRUE]
    /\ UNCHANGED <<balance, events, txDone, succeeded, last, orch, others>>

OrchNext ==
    \/ Start
    \/ EnsureSenderRegistered
    \/ SubmitRegistration
    \/ ExecuteRegistration
    \/ WaitRegistration
    \/ CheckRecipient
    \/ CheckBalance
    \/ BuildBatch
    \/ SubmitBatch
    \/ ExecuteBatch
    \/ WaitBatch
    \/ OtherRegisters

OrchSpec == OrchInit /\ [][OrchNext]_vars

\* The runs of the script on the long requests.
OrchLongInit ==
    /\ registered \in [Accounts -> BOOLEAN]
    /\ balance = [a \in Accounts |-> IF a = ScriptAccount /\ registered[a] THEN 100 ELSE 0]
    /\ events = <<>>
    /\ txDone = [s \in Senders |-> FALSE]
    /\ succeeded = 0
    /\ last = NoCall
    /\ \E request \in OrchLongRequests : orch = NewRun(request[1], request[2])
    /\ others = <<>>

OrchLongSpec == OrchLongInit /\ [][OrchNext]_vars

(***************************************************************************)
(* Concurrent runs of the script for the same sender account.  Each run is *)
(* sequential and gives up control only at an await, that is, between two  *)
(* of the steps above; orch is the run that takes the next step and others *)
(* holds the runs suspended meanwhile.                                     *)
(***************************************************************************)
\* Requests of one run: up to MaxLen entries of 100 each to B or C.
ConcRequests ==
    UNION {{<<r, Repeat(100, n)>> : r \in [1..n -> {Addr(TRUE, "B"), Addr(TRUE, "C")}]}
           : n \in 1..MaxLen}

ConcInit ==
    /\ registered \in {[a \in Accounts |-> TRUE], [a \in Accounts |-> a # "C"],
                       [a \in Accounts |-> a # ScriptAccount]}
    /\ balance = [a \in Accounts |-> IF a = ScriptAccount /\ registered[a] THEN 200 ELSE 0]
    /\ events = <<>>
    /\ txDone = [s \in Senders |-> FALSE]
    /\ succeeded = 0
    /\ last = NoCall
    /\ \E first \in ConcRequests, second \in ConcRequests :
        /\ orch = NewRun(first[1], first[2])
        /\ others = <<NewRun(second[1], second[2])>>

\* Control passes from the running run, suspended at its await, to the next
\* suspended run.
Switch ==
    /\ others # <<>>
    /\ orch' = Head(others)
    /\ others' = Append(Tail(others), orch)
    /\ UNCHANGED <<registered, balance, events, txDone, succeeded, last>>

ConcNext == OrchNext \/ Switch

ConcSpec == ConcInit /\ [][ConcNext]_vars

\* The awaited promise of line 211 settles: waitForTransaction returns or
\* throws.
OrchLiveSpec == OrchSpec /\ WF_vars(WaitBatch)

(***************************************************************************)
(* scripts/register_coin.ts: registerAccountsFromFile and                  *)
(* registerAccountForCoin.  orch holds the run of the script; the accounts *)
(* of test_accounts.json are B and C, and the file may name one twice.     *)
(***************************************************************************)
FileAccounts == {"B", "C"}

\* The state of a run of registerAccountsFromFile at the loop of line 173.
\* regTxn and batchTxn are the transactions of send_multiple.ts, of which
\* this script has none; rcTxn is its own registration transaction.
RcRun(accountsToRegister) ==
    [pc |-> "rcLoop", accounts |-> accountsToRegister, i |-> 0,
     results |-> [success |-> 0, failed |-> 0, alreadyRegistered |-> 0],
     outcomes |-> <<>>, errors |-> <<>>, answers |-> <<>>,
     rcTxn |-> "none", submitted |-> <<>>,
     regTxn |-> "none", batchTxn |-> "none"]

RcInit ==
    /\ registered \in [Accounts -> BOOLEAN]
    /\ balance = [a \in Accounts |-> IF registered[a] THEN 100 ELSE 0]
    /\ events = <<>>
    /\ txDone = [s \in Senders |-> FALSE]
    /\ succeeded = 0
    /\ last = NoCall
    /\ \E accountsToRegister \in SeqsUpTo(FileAccounts, MaxLen) :
        orch = RcRun(accountsToRegister)
    /\ others = <<>>

\* lines 173-194: the end of an iteration, counted in results (with the
\* error caught at line 185, if any), and the next iteration, or the
\* summary after the last.  A registration transaction that is still
\* pending then is out of the run's sight; that it may land later is part of
\* OtherRegisters.
RcNextAccount(o, outcome, error) ==
    LET counted == [o EXCEPT !.results[outcome] = @ + 1,
                             !.outcomes = Append(@, outcome),
                             !.errors = IF error = "none" THEN @ ELSE Append(@, error),
                             !.i = @ + 1, !.rcTxn = "none"]
    IN [counted EXCEPT !.pc = IF counted.i < Len(o.accounts) THEN "rcLoop" ELSE "rcDone"]

\* lines 175-188: the answer to the query of line 176.
RcLoopAnswered(o, isRegistered) ==
    IF isRegistered = "throw" THEN RcNextAccount(o, "failed", "QueryError")
    ELSE IF isRegistered = "true" THEN RcNextAccount(o, "alreadyRegistered", "none")
    ELSE [o EXCEPT !.pc = "rcCheck"]

\* registerAccountsFromFile with an empty accountsToRegister goes straight
\* to the summary.
RcEmpty ==
    /\ orch.pc = "rcLoop" /\ orch.i >= Len(orch.accounts)
    /\ orch' = [orch EXCEPT !.pc = "rcDone"]
    /\ UNCHANGED <<registered, balance, events, txDone, succeeded, last, others>>

RcLoop ==
    /\ orch.pc = "rcLoop" /\ orch.i < Len(orch.accounts)
    /\ \E response \in CoinStoreResponses(orch.accounts[orch.i + 1]) :
        orch' = RcLoopAnswered(orch, isAccountRegisteredForCoin(response))
    /\ UNCHANGED <<registered, balance, events, txDone, succeeded, last, others>>

\* lines 72-76 removed: the transaction is built whatever the answer.
registerAccountForCoinUnchecked(o, isRegistered) ==
    IF isRegistered = "throw" THEN RcNextAccount(o, "failed", "QueryError")
    ELSE [o EXCEPT !.pc = "rcSubmit", !.answers = Append(@, isRegistered)]

\* registerAccountForCoin, lines 66-76: the answer to the query of line 72;
\* an account already registered makes the function return, which line 184
\* counts as a success.
registerAccountForCoin(o, isRegistered) ==
    IF isRegistered = "throw" THEN RcNextAccount(o, "failed", "QueryError")
    ELSE IF isRegistered = "true"
    THEN RcNextAccount([o EXCEPT !.answers = Append(@, isRegistered)], "success", "none")
    ELSE [o EXCEPT !.pc = "rcSubmit", !.answers = Append(@, isRegistered)]

RcCheck ==
    /\ orch.pc = "rcCheck"
    /\ \E response \in CoinStoreResponses(orch.accounts[orch.i + 1]) :
        orch' = registerAccountForCoin(orch, isAccountRegisteredForCoin(response))
    /\ UNCHANGED <<registered, balance, events, txDone, succeeded, last, others>>

\* lines 78-103: build, sign, submit; an error is thrown again at line 121
\* and counted at line 186.
RcSubmit ==
    /\ orch.pc = "rcSubmit"
    /\ \E accepted \in BOOLEAN :
        orch' = IF accepted
                THEN [orch EXCEPT !.pc = "rcWait", !.rcTxn = "pending",
                                  !.submitted = Append(@, orch.accounts[orch.i + 1])]
                ELSE RcNextAccount(orch, "failed", "SubmitError")
    /\ UNCHANGED <<registered, balance, events, txDone, succeeded, last, others>>

\* The ledger executes managed_coin::register for the account: its
\* CoinStore is published if it has none, or the transaction fails.
RcExecute ==
    /\ orch.pc = "rcWait" /\ orch.rcTxn = "pending"
    /\ \E ok \in BOOLEAN :
        /\ orch' = [orch EXCEPT !.rcTxn = IF ok THEN "success" ELSE "failed"]
        /\ registered' = IF ok THEN [registered EXCEPT ![orch.accounts[orch.i + 1]] = TRUE]
                         ELSE registered
    /\ UNCHANGED <<balance, events, txDone, succeeded, last, others>>

\* lines 109-122: waitForTransaction and the test of executedTxn.success.
RcWait ==
    /\ orch.pc = "rcWait"
    /\ \E outcome \in IF orch.rcTxn = "pending" THEN {"timeout", "ioerror"}
                     ELSE {"executed", "timeout", "ioerror"} :
        orch' = IF outcome = "executed" /\ orch.rcTxn = "success"
                THEN RcNextAccount(orch, "success", "none")
                ELSE IF outcome = "executed"
                THEN RcNextAccount(orch, "failed", "TransactionFailed")
                ELSE RcNextAccount(orch, "failed", "WaitError")
    /\ UNCHANGED <<registered, balance, events, txDone, succeeded, last, others>>

RcNext ==
    \/ RcEmpty
    \/ RcLoop
    \/ RcCheck
    \/ RcSubmit
    \/ RcExecute
    \/ RcWait
    \/ OtherRegisters

\* The runs of register_coin.ts together with the runs of send_multiple.ts,
\* whose ensureSenderRegistered registers the sender.
RegInit == RcInit \/ OrchInit
RegNext == RcNext \/ OrchNext
RegSpec == RegInit /\ [][RegNext]_vars

(***************************************************************************)
(* The create-accounts script (createTestAccounts, fundAccount,            *)
(* fundAccountFallback, waitForAccountCreation, registerAccountForCoin,    *)
(* main).  The accounts it generates are numbered 1, 2, ...; in its runs   *)
(* registered and balance are the ledger's view of those accounts, and an  *)
(* account exists on-chain once a faucet funding of it has landed.         *)
(***************************************************************************)
NewAccounts == 1..MaxCount
\* The count argument of main: in range, 0 and 11.
Counts == (0..MaxCount) \cup {11}
\* The amount of one faucet funding (1 MOVE), in units of 10^6 octas.
FundAmount == 100

CaRun(count) ==
    [pc |-> "caMain", count |-> count, accounts |-> <<>>,
     ctx |-> "none", retries |-> 0, txHash |-> FALSE,
     requests |-> <<>>, fundFailed |-> {}, regSubmitted |-> {}, regFailed |-> {},
     regTxn |-> "none", file |-> "none"]

CaInit ==
    /\ registered = [a \in NewAccounts |-> FALSE]
    /\ balance = [a \in NewAccounts |-> 0]
    /\ events = <<>>
    /\ txDone = [s \in Senders |-> FALSE]
    /\ succeeded = 0
    /\ last = NoCall
    /\ \E count \in Counts : orch = CaRun(count)
    /\ others = <<>>

accountExistsOnChain(a) == balance[a] > 0

\* The account being processed: the last one pushed.
CaAccount(o) == Len(o.accounts)

\* A faucet request for the current account, accepted (then pending at the
\* faucet) or refused.
FaucetRequest(o, via, accepted) ==
    [account |-> CaAccount(o), via |-> via,
     status |-> IF accepted THEN "pending" ELSE "refused"]

\* main, lines 314-323: the range check of count.
CaMain ==
    /\ orch.pc = "caMain"
    /\ orch' = IF orch.count < 1 \/ orch.count > 10
               THEN [orch EXCEPT !.pc = "caUsage"]
               ELSE [orch EXCEPT !.pc = "caCreate"]
    /\ UNCHANGED <<registered, balance, events, txDone, succeeded, last, others>>

\* createTestAccounts, lines 223-232 and 263-281: the head of the loop
\* pushes a new account; after the last iteration the accounts are saved.
CaCreate ==
    /\ orch.pc = "caCreate"
    /\ orch' = IF Len(orch.accounts) < orch.count
               THEN [orch EXCEPT !.pc = "caFund",
                                 !.accounts = Append(@, Len(@) + 1),
                                 !.ctx = "none", !.retries = 0, !.txHash = FALSE,
                                 !.regTxn = "none"]
               ELSE [orch EXCEPT !.pc = "caDone", !.file = orch.accounts]
    /\ UNCHANGED <<registered, balance, events, txDone, succeeded, last, others>>

\* fundAccount, lines 105-110: whatever the try block throws, the request
\* itself or the wait for the account, is caught and the fallback is called.
FundingThrew(o) ==
    [o EXCEPT !.pc = "caFallbackGet", !.ctx = "none", !.retries = 0, !.txHash = FALSE]

\* createTestAccounts, lines 234-241: fundAccount threw; the registration is
\* skipped (continue).
FundingFailed(o) ==
    [o EXCEPT !.pc = "caCreate", !.fundFailed = @ \cup {CaAccount(o)},
              !.ctx = "none", !.retries = 0, !.txHash = FALSE]

\* lines 243-254: the registration threw; the error is logged.
RegistrationFailed(o) ==
    [o EXCEPT !.pc = "caCreate", !.regFailed = @ \cup {CaAccount(o)},
              !.ctx = "none", !.retries = 0, !.txHash = FALSE]

\* fundAccount, lines 76-97: aptos.fundAccount returns a result with or
\* without a hash, or throws.
CaFund ==
    /\ orch.pc = "caFund"
    /\ \E result \in {"hash", "nohash", "throw"} :
        orch' = IF result = "throw"
                THEN FundingThrew([orch EXCEPT
                         !.requests = Append(@, FaucetRequest(orch, "sdk", FALSE))])
                ELSE [orch EXCEPT
                         !.requests = Append(@, FaucetRequest(orch, "sdk", TRUE)),
                         !.txHash = (result = "hash"),
                         !.pc = IF result = "hash" THEN "caFundWait" ELSE "caPoll",
                         !.ctx = "fundAccount", !.retries = 0]
    /\ UNCHANGED <<registered, balance, events, txDone, succeeded, last, others>>

\* lines 88-94 and 146-152: waitForTransaction of the funding; its error is
\* only logged.
CaFundWait ==
    /\ orch.pc \in {"caFundWait", "caFallbackWait"}
    /\ orch' = [orch EXCEPT !.pc = "caPoll", !.retries = 0]
    /\ UNCHANGED <<registered, balance, events, txDone, succeeded, last, others>>

\* The faucet's funding transaction lands: the account exists from then on.
FundingLands ==
    /\ orch.pc \in {"caFund", "caFundWait", "caPoll", "caFallbackGet", "caFallbackPost",
                    "caFallbackWait", "caExists", "caRegSubmit", "caRegWait", "caCreate"}
    /\ \E k \in 1..Len(orch.requests) :
        /\ orch.requests[k].status = "pending"
        /\ orch' = [orch EXCEPT !.requests[k].status = "landed"]
        /\ balance' = [balance EXCEPT ![orch.requests[k].account] = @ + FundAmount]
    /\ UNCHANGED <<registered, events, txDone, succeeded, last, others>>

\* What follows waitForAccountCreation in each of its three callers when it
\* returns (lines 101-103, 157-160, 246-250) ...
AccountCreated(o) ==
    [o EXCEPT !.pc = IF o.ctx = "register" THEN "caRegSubmit" ELSE "caExists",
              !.ctx = "none", !.retries = 0, !.txHash = FALSE]

\* ... and when it throws (lines 105-110, 161-163 with 236-241, 251-254).
AccountNotCreated(o) ==
    IF o.ctx = "fundAccount" THEN FundingThrew(o)
    ELSE IF o.ctx = "fundAccountFallback" THEN FundingFailed(o)
    ELSE RegistrationFailed(o)

\* waitForAccountCreation, lines 61-69: one iteration of the polling loop.
\* accountExists answers false also when its query fails (lines 53-55).
CaPoll ==
    /\ orch.pc = "caPoll"
    /\ \E answer \in IF accountExistsOnChain(CaAccount(orch)) THEN BOOLEAN ELSE {FALSE} :
        orch' = IF answer THEN AccountCreated(orch)
                ELSE IF orch.retries + 1 < maxRetries
                THEN [orch EXCEPT !.retries = @ + 1]
                ELSE AccountNotCreated(orch)
    /\ UNCHANGED <<registered, balance, events, txDone, succeeded, last, others>>

\* fundAccountFallback, lines 118-145: the GET request.
CaFallbackGet ==
    /\ orch.pc = "caFallbackGet"
    /\ \E result \in {"hash", "nohash", "notok", "throw"} :
        orch' = IF result = "throw"
                THEN FundingFailed([orch EXCEPT
                         !.requests = Append(@, FaucetRequest(orch, "get", FALSE))])
                ELSE IF result = "notok"
                THEN [orch EXCEPT !.pc = "caFallbackPost",
                         !.requests = Append(@, FaucetRequest(orch, "get", FALSE))]
                ELSE [orch EXCEPT
                         !.requests = Append(@, FaucetRequest(orch, "get", TRUE)),
                         !.txHash = (result = "hash"),
                         !.pc = IF result = "hash" THEN "caFallbackWait" ELSE "caPoll",
                         !.ctx = "fundAccountFallback", !.retries = 0]
    /\ UNCHANGED <<registered, balance, events, txDone, succeeded, last, others>>

\* lines 124-145: the POST request after a GET that was not ok.
CaFallbackPost ==
    /\ orch.pc = "caFallbackPost"
    /\ \E result \in {"hash", "nohash", "notok"} :
        orch' = IF result = "notok"
                THEN FundingFailed([orch EXCEPT
                         !.requests = Append(@, FaucetRequest(orch, "post", FALSE))])
                ELSE [orch EXCEPT
                         !.requests = Append(@, FaucetRequest(orch, "post", TRUE)),
                         !.txHash = (result = "hash"),
                         !.pc = IF result = "hash" THEN "caFallbackWait" ELSE "caPoll",
                         !.ctx = "fundAccountFallback", !.retries = 0]
    /\ UNCHANGED <<registered, balance, events, txDone, succeeded, last, others>>

\* createTestAccounts, lines 243-250: accountExists before the registration.
CaExists ==
    /\ orch.pc = "caExists"
    /\ \E answer \in IF accountExistsOnChain(CaAccount(orch)) THEN BOOLEAN ELSE {FALSE} :
        orch' = IF answer THEN [orch EXCEPT !.pc = "caRegSubmit"]
                ELSE [orch EXCEPT !.pc = "caPoll", !.ctx = "register", !.retries = 0]
    /\ UNCHANGED <<registered, balance, events, txDone, succeeded, last, others>>

\* registerAccountForCoin, lines 169-190: build, sign, submit.
CaRegSubmit ==
    /\ orch.pc = "caRegSubmit"
    /\ \E accepted \in BOOLEAN :
        orch' = IF accepted
                THEN [orch EXCEPT !.pc = "caRegWait", !.regTxn = "pending",
                                  !.regSubmitted = @ \cup {CaAccount(orch)}]
                ELSE RegistrationFailed(orch)
    /\ UNCHANGED <<registered, balance, events, txDone, succeeded, last, others>>

\* The ledger executes managed_coin::register for the account, which
\* publishes its CoinStore if the account exists.
CaRegExecute ==
    /\ orch.pc = "caRegWait" /\ orch.regTxn = "pending"
    /\ LET ok == accountExistsOnChain(CaAccount(orch)) IN
        /\ orch' = [orch EXCEPT !.regTxn = IF ok THEN "success" ELSE "failed"]
        /\ registered' = IF ok THEN [registered EXCEPT ![CaAccount(orch)] = TRUE]
                         ELSE registered
    /\ UNCHANGED <<balance, events, txDone, succeeded, last, others>>

\* lines 192-199: waitForTransaction returns the executed transaction, whose
\* success is not looked at, or throws.
CaRegWait ==
    /\ orch.pc = "caRegWait"
    /\ \E outcome \in IF orch.regTxn = "pending" THEN {"throw"} ELSE {"executed", "throw"} :
        orch' = IF outcome = "executed" THEN [orch EXCEPT !.pc = "caCreate"]
                ELSE RegistrationFailed(orch)
    /\ UNCHANGED <<registered, balance, events, txDone, succeeded, last, others>>

CaNext ==
    \/ CaMain
    \/ CaCreate
    \/ CaFund
    \/ CaFundWait
    \/ FundingLands
    \/ CaPoll
    \/ CaFallbackGet
    \/ CaFallbackPost
    \/ CaExists
    \/ CaRegSubmit
    \/ CaRegExecute
    \/ CaRegWait

CaSpec == CaInit /\ [][CaNext]_vars

(***************************************************************************)
(* Properties.  The operators below state the claims; they are computed    *)
(* from the recorded call, not by the model of the code.                   *)
(***************************************************************************)
\* The arithmetic sum of f[lo], ..., f[hi] (unbounded integers).
RECURSIVE SumRange(_, _, _)
SumRange(f, lo, hi) ==
    IF lo > hi THEN 0
    ELSE IF lo = hi THEN f[lo]
    ELSE LET mid == (lo + hi) \div 2 IN SumRange(f, lo, mid) + SumRange(f, mid + 1, hi)

ArithSum(amounts) == SumRange(amounts, 1, Len(amounts))

\* The sum of amounts[i] over the positions i whose recipient satisfies Keep.
SumWhere(recipients, amounts, Keep(_)) ==
    SumRange([i \in 1..Len(amounts) |-> IF Keep(recipients[i]) THEN amounts[i] ELSE 0],
             1, Len(amounts))

\* The positions with a positive amount, in increasing order.
PositivePositions(amounts) ==
    LET idx == {i \in 1..Len(amounts) : amounts[i] > 0} IN
    [k \in 1..Cardinality(idx) |->
        CHOOSE i \in idx : Cardinality({j \in idx : j < i}) = k - 1]

PositiveTransfers(sender, recipients, amounts) ==
    LET pos == PositivePositions(amounts) IN
    [k \in 1..Len(pos) |-> [from |-> sender, to |-> recipients[pos[k]],
                            amount |-> amounts[pos[k]]]]

IsBatchCall == last.fn = "send_move_to_multiple"
IsEqualCall == last.fn = "send_equal_amounts"
LedgerUnchanged ==
    /\ balance = last.pre.balance
    /\ events = last.pre.events
    /\ registered = last.pre.registered
StructurallyValid ==
    /\ 1 <= Len(last.recipients)
    /\ Len(last.recipients) <= 100
    /\ Len(last.amounts) = Len(last.recipients)

\* C1: a send_move_to_multiple call with 1 <= n <= 100 recipients and n
\* amounts either commits a coin transfer for every entry with amount > 0 (and
\* nothing else) and appends one BatchTransferEvent {sender, n, sum(amounts)},
\* or aborts leaving every balance and the event log as before, with no
\* transfer committed.
C1_AllOrNothing ==
    (IsBatchCall /\ StructurallyValid) =>
        \/ /\ last.status = "ok"
           /\ last.transfers =
                  PositiveTransfers(last.sender, last.recipients, last.amounts)
           /\ events = Append(last.pre.events,
                              [sender |-> last.sender,
                               num_recipients |-> Len(last.recipients),
                               total_amount |-> ArithSum(last.amounts)])
        \/ /\ last.status = "abort"
           /\ last.transfers = <<>>
           /\ LedgerUnchanged

\* The batch aborted at its second entry, after a first transfer that the
\* sender could pay to a registered recipient.
C1_Witness ==
    /\ IsBatchCall /\ StructurallyValid /\ last.status = "abort"
    /\ Len(last.recipients) = 2
    /\ last.amounts[1] > 0 /\ last.amounts[1] <= last.pre.balance[last.sender]
    /\ last.pre.registered[last.recipients[1]]
    /\ last.recipients[1] # last.sender
    /\ last.amounts[2] > 0 /\ ~last.pre.registered[last.recipients[2]]

\* C2: after a successful send_move_to_multiple the sender's balance is down
\* by the sum of the amounts sent to other accounts and every other account's
\* balance is up by the sum of the amounts at the positions that name it.
C2_BalanceEffect ==
    (IsBatchCall /\ last.status = "ok") =>
        /\ balance[last.sender] = last.pre.balance[last.sender]
              - SumWhere(last.recipients, last.amounts, LAMBDA r : r # last.sender)
        /\ \A a \in Accounts \ {last.sender} :
              balance[a] = last.pre.balance[a]
                  + SumWhere(last.recipients, last.amounts, LAMBDA r : r = a)

\* Scenario A: balance 1000, amounts [100, 200] to two recipients.
C2_Witness ==
    /\ IsBatchCall /\ last.status = "ok"
    /\ last.sender = "A" /\ last.pre.balance["A"] = 1000
    /\ last.recipients = <<"B", "C">> /\ last.amounts = <<100, 200>>
    /\ balance = [a \in Accounts |-> IF a = "A" THEN 700 ELSE IF a = "B" THEN 100 ELSE 200]

\* C3: send_move_to_multiple with an empty recipients vector aborts with
\* invalid_argument(EEMPTY_RECIPIENTS) = 0x10002 whatever amounts holds, and
\* changes no balance and emits no event.
C3_EmptyRecipients ==
    (IsBatchCall /\ Len(last.recipients) = 0) =>
        /\ last.status = "abort"
        /\ last.abort = [location |-> "Self", code |-> 65538]
        /\ LedgerUnchanged

C3_Witness ==
    /\ IsBatchCall /\ last.recipients = <<>> /\ Len(last.amounts) > 0
    /\ last.status = "abort"

\* C4: with more than 100 recipients send_move_to_multiple and
\* send_equal_amounts abort with invalid_argument(EBATCH_SIZE_EXCEEDED),
\* whatever the length of amounts, and the ledger is unchanged; with exactly
\* 100 recipients neither aborts with that error.
C4_BatchSizeExceeded ==
    (IsBatchCall \/ IsEqualCall) =>
        /\ Len(last.recipients) > 100 =>
              /\ last.status = "abort"
              /\ last.abort = [location |-> "Self", code |-> 65539]
              /\ LedgerUnchanged
        /\ Len(last.recipients) = 100 =>
              last.abort # [location |-> "Self", code |-> 65539]

\* 101 recipients with an amounts vector of another length.
C4_Witness ==
    /\ IsBatchCall /\ Len(last.recipients) = 101 /\ Len(last.amounts) # 101
    /\ last.status = "abort"

\* C5 as stated: every send_move_to_multiple call with
\* len(recipients) # len(amounts) aborts with
\* invalid_argument(EVECTOR_LENGTH_MISMATCH) = 0x10001, ledger unchanged.
C5_Original ==
    (IsBatchCall /\ Len(last.recipients) # Len(last.amounts)) =>
        /\ last.status = "abort"
        /\ last.abort = [location |-> "Self", code |-> 65537]
        /\ LedgerUnchanged

\* C5, amended: a send_move_to_multiple call with len(recipients) #
\* len(amounts) aborts and leaves the ledger unchanged; the abort is
\* invalid_argument(EVECTOR_LENGTH_MISMATCH) = 0x10001 when 1 <=
\* len(recipients) <= 100, EEMPTY_RECIPIENTS when recipients is empty and
\* EBATCH_SIZE_EXCEEDED when there are more than 100 recipients.
C5_LengthMismatch ==
    (IsBatchCall /\ Len(last.recipients) # Len(last.amounts)) =>
        /\ last.status = "abort"
        /\ LedgerUnchanged
        /\ last.abort.location = "Self"
        /\ last.abort.code =
              IF Len(last.recipients) = 0 THEN 65538
              ELSE IF Len(last.recipients) > 100 THEN 65539
              ELSE 65537

\* Scenario D: one recipient, two amounts.
C5_Witness ==
    /\ IsBatchCall /\ Len(last.recipients) = 1 /\ Len(last.amounts) = 2
    /\ last.abort = [location |-> "Self", code |-> 65537]

\* C6: in a structurally valid send_move_to_multiple call no committed
\* transfer has amount 0, and the entries of amount 0 do not decide the
\* outcome: the call ends (status, abort, balances, transfers) as the call
\* with those entries removed does, and succeeds without any transfer when
\* every amount is 0, whatever the registration of the recipients.
C6_ZeroAmountSkipped ==
    (IsBatchCall /\ StructurallyValid) =>
        LET pos == PositivePositions(last.amounts)
            rs == [k \in 1..Len(pos) |-> last.recipients[pos[k]]]
            as == [k \in 1..Len(pos) |-> last.amounts[pos[k]]]
            run == send_move_to_multiple(
                       VmState(last.pre.registered, last.pre.balance, last.pre.events),
                       last.sender, rs, as)
            done == Commit(last.pre, run)
        IN /\ \A k \in 1..Len(last.transfers) : last.transfers[k].amount > 0
           /\ IF Len(pos) = 0
              THEN last.status = "ok" /\ balance = last.pre.balance
                   /\ last.transfers = <<>>
              ELSE /\ last.status = run.status
                   /\ last.abort = run.abort
                   /\ balance = done.balance
                   /\ last.transfers = done.transfers

\* A batch that succeeded with a positive entry and an entry of amount 0 for
\* a recipient that is not registered.
C6_Witness ==
    /\ IsBatchCall /\ StructurallyValid /\ last.status = "ok"
    /\ \E i, j \in 1..Len(last.amounts) :
          /\ last.amounts[i] = 0 /\ ~registered[last.recipients[i]]
          /\ last.amounts[j] > 0

\* C7: send_equal_amounts(sender, recipients, a) ends as
\* send_move_to_multiple(sender, recipients, [a, ..., a]) does from the same
\* ledger: the same abort and an unchanged ledger, or the same balances and
\* the same event, which is {sender, len(recipients), a * len(recipients)}.
C7_EqualAmountsEquivalent ==
    IsEqualCall =>
        LET n == Len(last.recipients)
            a == last.amounts[1]
            run == send_move_to_multiple(
                       VmState(last.pre.registered, last.pre.balance, last.pre.events),
                       last.sender, last.recipients, [k \in 1..n |-> a])
            done == Commit(last.pre, run)
        IN /\ last.status = run.status
           /\ last.abort = run.abort
           /\ balance = done.balance
           /\ events = done.events
           /\ last.transfers = done.transfers
           /\ last.status = "abort" => LedgerUnchanged
           /\ last.status = "ok" =>
                 events = Append(last.pre.events,
                                 [sender |-> last.sender, num_recipients |-> n,
                                  total_amount |-> a * n])

\* An equal-amount call of 100 to two different recipients that succeeded.
C7_Witness ==
    /\ IsEqualCall /\ last.status = "ok" /\ last.amounts = <<100>>
    /\ Len(last.recipients) = 2 /\ last.recipients[1] # last.recipients[2]
    /\ last.sender \notin {last.recipients[1], last.recipients[2]}

\* The total of the last call's amounts.
LastTotal(l) ==
    IF l.fn = "send_equal_amounts" THEN l.amounts[1] * Len(l.recipients)
    ELSE ArithSum(l.amounts)

C9_Original ==
    last.fn = "calculate_total_amount" =>
        /\ last.status = "ok" /\ last.ret = ArithSum(last.amounts)
        /\ LedgerUnchanged

\* C9, amended: calculate_total_amount(amounts) returns the arithmetic sum of
\* amounts when that sum fits a u64 and aborts with an arithmetic error when
\* it does not; in both cases the ledger is as before the call.
C9_CalculateTotal ==
    last.fn = "calculate_total_amount" =>
        /\ IF ArithSum(last.amounts) <= MAX_U64
           THEN last.status = "ok" /\ last.ret = ArithSum(last.amounts)
           ELSE last.status = "abort" /\ last.abort = ArithmeticAbort
        /\ LedgerUnchanged

\* Scenario F on a ledger with balances and an event.
C9_Witness ==
    /\ last.fn = "calculate_total_amount" /\ last.amounts = <<100, 200, 300>>
    /\ last.ret = 600 /\ events # <<>> /\ balance["A"] > 0

\* The recipients, normalized, at the positions whose query answered "not
\* registered", in the order of the request.
AnsweredUnregistered(o) ==
    LET idx == {j \in 1..Len(o.answers) : o.answers[j] = "false"} IN
    [k \in 1..Cardinality(idx) |->
        Normalize(o.recipients[
            CHOOSE j \in idx : Cardinality({h \in idx : h < j}) = k - 1])]

\* C10: in a run of sendMoveToMultiple, unregisteredRecipients is the list,
\* in request order, of all recipients whose registration query answered
\* "not registered" (and of those only); once it is not empty the batch
\* transaction is never built, signed or submitted, and when every recipient
\* has been queried the run has thrown, reporting the list of all of them.
C10_PreflightUnregistered ==
    orch.pc # "idle" =>
        /\ orch.unregisteredRecipients = AnsweredUnregistered(orch)
        /\ Len(orch.unregisteredRecipients) > 0 =>
              /\ ~orch.built /\ ~orch.signed /\ orch.batchTxn = "none"
              /\ orch.pc \in {"checkRecipients", "thrown"}
              /\ Len(orch.answers) = Len(orch.recipients) =>
                    orch.pc = "thrown" /\ orch.error = "UnregisteredRecipients"
        /\ orch.error = "UnregisteredRecipients" =>
              /\ Len(orch.answers) = Len(orch.recipients)
              /\ Len(orch.unregisteredRecipients) > 0
        /\ orch.pc \in {"checkBalance", "build", "submit", "wait", "confirmed"} =>
              /\ Len(orch.answers) = Len(orch.recipients)
              /\ \A j \in 1..Len(orch.answers) : orch.answers[j] = "true"

\* The run threw with two unregistered recipients reported, the second one
\* given without "0x", after both queries.
C10_Witness ==
    /\ orch.pc = "thrown" /\ orch.error = "UnregisteredRecipients"
    /\ Len(orch.recipients) = 2
    /\ orch.recipients[2] = Addr(FALSE, "B")
    /\ orch.unregisteredRecipients = <<Addr(TRUE, "C"), Addr(TRUE, "B")>>

\* The run ended with one of the errors found before the batch is built.
AbortedInPreflight(o) ==
    /\ o.pc = "thrown"
    /\ o.error \in {"LengthMismatch", "NoRecipients", "UnregisteredRecipients"}

\* No batch transaction has been executed: no balance or event has changed.
NoBatchExecuted ==
    /\ last = NoCall /\ events = <<>> /\ succeeded = 0
    /\ \A a \in Accounts \ {ScriptAccount} : balance[a] = 0

\* C11 as stated: when a run of sendMoveToMultiple throws because a recipient
\* is not registered or because of a structural error, it has submitted no
\* transaction of any kind, also when the sender was not registered at the
\* start of the run.
C11_Original ==
    AbortedInPreflight(orch) =>
        /\ orch.submitted = <<>>
        /\ orch.regTxn = "none" /\ orch.batchTxn = "none"
        /\ NoBatchExecuted

\* C11, amended: a run that throws on a structural error has issued no query
\* and submitted nothing.  A run that throws because of unregistered
\* recipients has never submitted the batch and no balance or event has
\* changed, but it has submitted one managed_coin::register transaction for
\* the sender exactly when the sender's own query answered "not registered".
C11_PreflightAbortEffects ==
    AbortedInPreflight(orch) =>
        /\ orch.batchTxn = "none" /\ ~orch.built /\ ~orch.signed
        /\ NoBatchExecuted
        /\ orch.error \in {"LengthMismatch", "NoRecipients"} =>
              /\ orch.submitted = <<>> /\ orch.queries = 0
              /\ orch.regTxn = "none"
        /\ orch.error = "UnregisteredRecipients" =>
              /\ orch.submitted = IF orch.senderRegistered = "false"
                                  THEN <<RegisterPayload>> ELSE <<>>
              /\ orch.senderRegistered = "false" => orch.regTxn = "success"
              /\ orch.senderRegistered = "true" => orch.regTxn = "none"

\* The sender was not registered: the run registered it, then threw on an
\* unregistered recipient.
C11_Witness ==
    /\ AbortedInPreflight(orch) /\ orch.error = "UnregisteredRecipients"
    /\ orch.senderRegistered = "false" /\ registered[ScriptAccount]
    /\ orch.submitted = <<RegisterPayload>>

\* C12: the balance check of sendMoveToMultiple never ends the run: from the
\* balance check the run always goes on to build the batch transaction, with
\* nothing submitted or thrown by the check, whether the balance read is at
\* least the total, is less than the total, or the query failed; a balance
\* below the total only sets the warning.
C12_AdvisoryBalanceCheck ==
    [][(orch.pc = "checkBalance" /\ orch' # orch) =>
          /\ orch'.pc = "build"
          /\ orch'.error = "none"
          /\ orch'.submitted = orch.submitted
          /\ balance[ScriptAccount] < ArithSum(orch.amounts) => orch'.warned
          /\ orch'.queries = orch.queries + 1]_vars

\* A batch whose total exceeded the balance read was submitted after the
\* warning, and the ledger rejected it for insufficient balance.
C12_Witness ==
    /\ orch.warned /\ orch.batchTxn = "failed"
    /\ Len(orch.submitted) > 0
    /\ last.pre.balance[ScriptAccount] < ArithSum(orch.amounts)
    /\ last.abort = CoinAbort("EINSUFFICIENT_BALANCE")

\* The error kind of the on-ledger executor that a local error stands for.
ExecutorKind(error) ==
    IF error = "NoRecipients" THEN SelfAbort(invalid_argument(EEMPTY_RECIPIENTS))
    ELSE IF error = "LengthMismatch"
    THEN SelfAbort(invalid_argument(EVECTOR_LENGTH_MISMATCH))
    ELSE IF error = "BatchSizeExceeded"
    THEN SelfAbort(invalid_argument(EBATCH_SIZE_EXCEEDED))
    ELSE NoAbort

\* C13: sendMoveToMultiple rejects every structurally invalid request
\* (lengths differ, no recipients, more than 100 recipients) locally: it
\* issues no ledger query and submits nothing, and its first step throws the
\* error kind that send_move_to_multiple reports for the same request.
C13_LocalStructuralCheck ==
    LET reported == ValidateBatch(Len(orch.recipients), Len(orch.amounts)) IN
    (orch.pc # "idle" /\ reported # NoAbort) =>
        /\ orch.queries = 0 /\ orch.submitted = <<>>
        /\ orch.pc # "start" =>
              orch.pc = "thrown" /\ ExecutorKind(orch.error) = reported

\* The batch invocations among the transactions a run has submitted.
BatchesSubmitted(o) ==
    SelectSeq(o.submitted,
              LAMBDA p : p.function = "moove_money::send_move_to_multiple")

\* C14: a run of sendMoveToMultiple submits the batch invocation at most
\* once, as one transaction whose arguments are the full recipients list
\* (normalized) and the full amounts list; it is not submitted again after the
\* ledger failed it or after the wait threw, and the ledger executes at most
\* one invocation for the run, with those full lists.
C14_SingleSubmission ==
    orch.pc # "idle" =>
        /\ Len(BatchesSubmitted(orch)) <= 1
        /\ \A k \in 1..Len(BatchesSubmitted(orch)) :
              BatchesSubmitted(orch)[k] =
                  BatchPayload(BatchRecipients(orch), orch.amounts)
        /\ orch.pc \in {"wait", "confirmed"} => Len(BatchesSubmitted(orch)) = 1
        /\ last # NoCall =>
              /\ Len(BatchesSubmitted(orch)) = 1
              /\ last.recipients = BatchRecipients(orch)
              /\ last.amounts = orch.amounts
              /\ succeeded <= 1

\* The run ended after the ledger failed its batch of two entries, or after
\* the wait threw, with the one submission it made.
C14_Witness ==
    /\ orch.pc = "thrown"
    /\ orch.error \in {"TransactionFailed", "StatusQueryError"}
    /\ Len(orch.recipients) = 2
    /\ orch.batchTxn = "failed"
    /\ Len(BatchesSubmitted(orch)) = 1

\* The run has ended after submitting its batch invocation.
EndedAfterSubmission(o) ==
    o.pc \in {"confirmed", "thrown"} /\ Len(BatchesSubmitted(o)) = 1

\* C15 as stated: a run that submitted its batch ends as Confirmed if and
\* only if the ledger finalized the invocation with success, and when the
\* ledger finalized it as failed the run ends as Failed carrying the
\* ledger's status.
C15_Original ==
    EndedAfterSubmission(orch) =>
        /\ orch.pc = "confirmed" <=> orch.batchTxn = "success"
        /\ orch.batchTxn = "failed" =>
              orch.pc = "thrown" /\ orch.error = "TransactionFailed"

\* C15, amended: a run ends as Confirmed only if the ledger finalized its
\* invocation with success; when the ledger finalized it as failed the run
\* never ends as Confirmed, it throws; it throws "Transaction failed" only for
\* an invocation the ledger failed.  A run whose wait threw (timeout or query
\* error) ends as thrown with that error whatever the ledger did or does
\* later, so a successfully finalized invocation may belong to a thrown run.
C15_FaithfulReport ==
    EndedAfterSubmission(orch) =>
        /\ orch.pc = "confirmed" => orch.batchTxn = "success"
        /\ orch.batchTxn = "failed" => orch.pc = "thrown"
        /\ orch.error = "TransactionFailed" => orch.batchTxn = "failed"
        /\ (orch.pc = "thrown" /\ orch.batchTxn # "failed") =>
              orch.error \in {"WaitForTransactionError", "StatusQueryError"}
        /\ orch.pc = "thrown" =>
              orch.error \in {"TransactionFailed", "WaitForTransactionError",
                              "StatusQueryError"}

\* The wait timed out and the run threw; the ledger finalized the invocation
\* with success and moved the coins.
C15_Witness ==
    /\ EndedAfterSubmission(orch) /\ orch.pc = "thrown"
    /\ orch.error = "WaitForTransactionError"
    /\ orch.batchTxn = "success" /\ last.status = "ok"
    /\ balance["B"] > 0

\* The settlement outcome a run holds for its batch invocation: none before
\* the submission, Pending from the submission on, Confirmed when the run
\* has reported success, Failed when it has thrown an error.
SettlementOutcome(o) ==
    IF o.pc = "idle" \/ Len(BatchesSubmitted(o)) = 0 THEN "NotSubmitted"
    ELSE IF o.pc = "confirmed" THEN "Confirmed"
    ELSE IF o.error # "none" THEN "Failed"
    ELSE "Pending"

\* C16: the settlement outcome of a submitted invocation starts as Pending,
\* changes only from Pending, to Confirmed or to Failed, and never changes
\* once it is Confirmed or Failed; and a Pending outcome does change, since
\* the wait returns or throws.
C16_OutcomeOnce ==
    /\ [][SettlementOutcome(orch') # SettlementOutcome(orch) =>
             \/ /\ SettlementOutcome(orch) = "NotSubmitted"
                /\ SettlementOutcome(orch') = "Pending"
             \/ /\ SettlementOutcome(orch) = "Pending"
                /\ SettlementOutcome(orch') \in {"Confirmed", "Failed"}]_vars
    /\ (SettlementOutcome(orch) = "Pending")
           ~> (SettlementOutcome(orch) \in {"Confirmed", "Failed"})

\* A Failed outcome of an invocation that the ledger executed with success
\* after the run had stopped waiting.
C16_Witness ==
    /\ SettlementOutcome(orch) = "Failed"
    /\ orch.error = "WaitForTransactionError"
    /\ orch.batchTxn = "success"

\* C17: when a run that submitted its batch ends as thrown for a reason other
\* than a timeout of the wait, none of the batch's transfers has taken or
\* takes effect: no invocation of the run has committed and every balance is
\* as before the submission.
C17_SafeRetry ==
    (EndedAfterSubmission(orch) /\ orch.pc = "thrown"
        /\ orch.error # "WaitForTransactionError") =>
        /\ orch.batchTxn # "success"
        /\ succeeded = 0 /\ events = <<>>
        /\ last # NoCall => (last.status = "abort" /\ balance = last.pre.balance)

\* C18: while the run awaits the settlement of its batch, a failed status
\* query does not end it: a run that submitted its batch throws only for an
\* invocation the ledger failed or for a wait that timed out.
C18_RetryStatusQuery ==
    (EndedAfterSubmission(orch) /\ orch.pc = "thrown") =>
        orch.error \in {"TransactionFailed", "WaitForTransactionError"}

C20_IndivisibleBatches ==
    /\ [](\A a \in Accounts : balance[a] >= 0)
    /\ [][(balance' # balance \/ events' # events) =>
             LET rs == BatchRecipients(orch)
                 as == orch.amounts
             IN /\ orch.batchTxn = "pending" /\ orch'.batchTxn = "success"
                /\ others' = others
                /\ balance'[ScriptAccount] = balance[ScriptAccount]
                      - SumWhere(rs, as, LAMBDA r : r # ScriptAccount)
                /\ \A a \in Accounts \ {ScriptAccount} :
                      balance'[a] = balance[a] + SumWhere(rs, as, LAMBDA r : r = a)
                /\ events' = Append(events, [sender |-> ScriptAccount,
                                             num_recipients |-> Len(rs),
                                             total_amount |-> ArithSum(as)])]_vars
    /\ [][orch'.batchTxn = "failed" /\ orch.batchTxn = "pending" =>
             balance' = balance /\ events' = events]_vars

\* Two runs both passed the balance check against the balance 200 (neither
\* warned) with totals of 200 and 100; one batch was applied whole, the other
\* was rejected whole for insufficient balance.
C20_Witness ==
    /\ others # <<>>
    /\ ~orch.warned /\ ~others[1].warned
    /\ {orch.batchTxn, others[1].batchTxn} = {"success", "failed"}
    /\ ArithSum(orch.amounts) + ArithSum(others[1].amounts) = 300
    /\ last.abort = CoinAbort("EINSUFFICIENT_BALANCE")
    /\ \A a \in Accounts : balance[a] >= 0
    /\ Len(events) = 1

\* C21: registering an account that is already registered is a no-op
\* success.  In register_coin.ts, a step of the loop (line 176) or of
\* registerAccountForCoin (line 72) on a registered account submits nothing,
\* leaves the registration and the balance of every account as they are and
\* goes on to the next account, counted as already registered or as a
\* success; no error is recorded for it except a failure of the query
\* itself.  In send_multiple.ts, ensureSenderRegistered on a registered
\* sender submits nothing and returns to the recipient checks.  So a second
\* registration of an account leaves the state the first one left.
C21_RegistrationIdempotent ==
    /\ [][(/\ orch.pc \in {"rcLoop", "rcCheck"}
           /\ orch.i < Len(orch.accounts)
           /\ registered[orch.accounts[orch.i + 1]]
           /\ orch' # orch) =>
             /\ orch'.submitted = orch.submitted /\ orch'.rcTxn = "none"
             /\ registered' = registered /\ balance' = balance
             /\ orch'.pc \in {"rcLoop", "rcDone"} /\ orch'.i = orch.i + 1
             /\ IF orch'.errors = orch.errors
                THEN /\ orch'.results.failed = orch.results.failed
                     /\ orch'.outcomes[orch'.i] =
                           IF orch.pc = "rcLoop" THEN "alreadyRegistered" ELSE "success"
                ELSE orch'.errors = Append(orch.errors, "QueryError")]_vars
    /\ [][(/\ orch.pc = "ensureSenderRegistered"
           /\ registered[ScriptAccount]
           /\ orch' # orch) =>
             /\ orch'.submitted = <<>> /\ orch'.regTxn = "none"
             /\ registered' = registered /\ balance' = balance
             /\ \/ orch'.pc = "checkRecipients" /\ orch'.senderRegistered = "true"
                \/ orch'.pc = "thrown" /\ orch'.error = "QueryError"]_vars

\* The file names B twice: the run registered B with one transaction and
\* found it registered the second time.
C21_Witness ==
    /\ orch.pc = "rcDone" /\ orch.accounts = <<"B", "B">>
    /\ orch.submitted = <<"B">>
    /\ orch.outcomes = <<"success", "alreadyRegistered">>
    /\ registered["B"]

\* C22: when the create-accounts script has saved test_accounts.json for a
\* count between 1 and 10, the file holds exactly count accounts and every
\* one of them has been funded by the faucet and is registered for
\* AptosCoin.
C22_SavedAccountsReady ==
    (orch.pc = "caDone" /\ 1 <= orch.count /\ orch.count <= 10) =>
        /\ orch.file = [k \in 1..orch.count |-> k]
        /\ \A k \in 1..Len(orch.file) :
              /\ balance[orch.file[k]] >= FundAmount
              /\ registered[orch.file[k]]

\* C30: the fallback faucet request for an account is issued only when the
\* SDK funding request for it was not accepted: no GET or POST request to
\* the faucet follows an accepted SDK request for the same account.
C30_FallbackOnlyAfterRefusal ==
    orch.pc # "idle" =>
        \A k \in 1..Len(orch.requests) :
            orch.requests[k].via \in {"get", "post"} =>
                \A j \in 1..(k - 1) :
                    (orch.requests[j].account = orch.requests[k].account
                        /\ orch.requests[j].via = "sdk") =>
                        orch.requests[j].status = "refused"

\* The self-registrations among the transactions a run has submitted.
RegistrationsSubmitted(o) ==
    SelectSeq(o.submitted, LAMBDA p : p = RegisterPayload)

\* C23: in a run of sendMoveToMultiple the sender's registration comes
\* first.  A sender found registered has no registration submitted for it.
\* A sender found unregistered has at most one, submitted before anything
\* else; and once a recipient has been queried, the balance read or the
\* batch built or submitted, the sender's query has answered and, if it
\* answered "not registered", exactly one registration was submitted and it
\* has settled.
C23_SenderRegistrationFirst ==
    orch.pc # "idle" =>
        /\ Len(RegistrationsSubmitted(orch)) <= 1
        /\ orch.senderRegistered \in {"true", "unknown"} =>
              Len(RegistrationsSubmitted(orch)) = 0 /\ orch.regTxn = "none"
        /\ Len(RegistrationsSubmitted(orch)) = 1 =>
              orch.submitted[1] = RegisterPayload /\ orch.regTxn # "none"
        /\ (\/ Len(orch.answers) > 0 \/ orch.queries > 1
            \/ Len(BatchesSubmitted(orch)) > 0 \/ orch.built
            \/ orch.pc \in {"checkRecipients", "checkBalance", "build", "submit",
                            "wait", "confirmed"}) =>
              /\ orch.senderRegistered # "unknown"
              /\ orch.senderRegistered = "false" =>
                    /\ Len(RegistrationsSubmitted(orch)) = 1
                    /\ orch.regTxn \in {"success", "failed"}

\* The sender was found unregistered, its registration settled, and the
\* batch was submitted after it.
C23_Witness ==
    /\ orch.pc = "wait" /\ orch.senderRegistered = "false"
    /\ orch.regTxn = "success"
    /\ Len(orch.submitted) = 2 /\ orch.submitted[1] = RegisterPayload
    /\ Len(orch.answers) = 2

\* C24: the batch transaction is built, signed and submitted only after the
\* registration query of every recipient of the request has been answered,
\* each with "registered"; a run in which a query failed with another error
\* has thrown without building or submitting the batch.
C24_CompletePreflight ==
    orch.pc # "idle" =>
        /\ (orch.built \/ orch.signed \/ Len(BatchesSubmitted(orch)) > 0
                \/ orch.batchTxn # "none") =>
              /\ orch.i = Len(orch.recipients)
              /\ Len(orch.answers) = Len(orch.recipients)
              /\ \A j \in 1..Len(orch.recipients) : orch.answers[j] = "true"
              /\ orch.unregisteredRecipients = <<>>
        /\ orch.error = "QueryError" =>
              /\ orch.pc = "thrown"
              /\ ~orch.built /\ ~orch.signed /\ orch.batchTxn = "none"
              /\ Len(BatchesSubmitted(orch)) = 0
              /\ Len(orch.answers) < Len(orch.recipients)

\* The first recipient answered "registered", the query of the second failed
\* with another error: the run threw with nothing built.
C24_Witness ==
    /\ orch.pc = "thrown" /\ orch.error = "QueryError"
    /\ Len(orch.recipients) = 2 /\ orch.answers = <<"true">>
    /\ ~orch.built /\ Len(BatchesSubmitted(orch)) = 0

\* What the sender of the call l still holds when entry i is reached, had
\* every earlier entry been paid: the balance before the call minus the
\* amounts of the entries before i that name another account.
RemainingAt(l, i) ==
    l.pre.balance[l.sender]
        - SumRange([j \in 1..Len(l.amounts) |->
                       IF j < i /\ l.recipients[j] # l.sender THEN l.amounts[j] ELSE 0],
                   1, Len(l.amounts))

\* Entry i of the call l has a positive amount that cannot be paid.
EntryFails(l, i) ==
    /\ l.amounts[i] > 0
    /\ \/ ~l.pre.registered[l.recipients[i]]
       \/ RemainingAt(l, i) < l.amounts[i]

\* C25: a structurally valid send_move_to_multiple call aborts if and only if
\* some entry with a positive amount names an unregistered recipient or
\* exceeds what the sender has left when it is reached (the initial balance
\* minus the amounts already sent to other accounts); an aborted call leaves
\* the ledger as it was.
C25_AbortCondition ==
    (IsBatchCall /\ StructurallyValid) =>
        /\ last.status = "abort" <=>
              \E i \in 1..Len(last.amounts) : EntryFails(last, i)
        /\ last.status = "abort" => LedgerUnchanged

\* Every entry of the call l could be paid in its turn.
EveryEntryPayable(l) ==
    \A i \in 1..Len(l.amounts) : ~EntryFails(l, i)

\* C26: the total of the amounts is no precondition: a structurally valid
\* send_move_to_multiple call whose transfers would all succeed in order is
\* never rejected because of the sum of its amounts, the sums above the
\* largest u64 included.
C26_TotalForEventOnly ==
    (IsBatchCall /\ StructurallyValid /\ EveryEntryPayable(last)) =>
        last.status = "ok"

\* C27: a zero-amount entry never causes the orchestrator to reject the
\* attempt: a run whose recipients found unregistered all have amount 0 does
\* not throw for unregistered recipients.
C27_ZeroAmountNotRejected ==
    (/\ orch.pc # "idle"
     /\ Len(orch.recipients) = Len(orch.amounts)
     /\ \A j \in 1..Len(orch.answers) :
           orch.answers[j] = "false" => orch.amounts[j] = 0) =>
        orch.error # "UnregisteredRecipients"

\* The sum of the balances b of the accounts of S.
RECURSIVE BalanceSum(_, _)
BalanceSum(b, S) ==
    IF S = {} THEN 0
    ELSE LET a == CHOOSE x \in S : TRUE IN b[a] + BalanceSum(b, S \ {a})

\* C28: after any sequence of send_move_to_multiple and send_equal_amounts
\* calls, successful or aborted, the balances of all accounts add up to what
\* they added up to before the last call, which is the 1000 the ledger
\* started with, and no balance is negative, repeated recipients and a sender
\* among its own recipients included.
C28_Conservation ==
    /\ \A a \in Accounts : balance[a] >= 0
    /\ BalanceSum(balance, Accounts) = 1000
    /\ last.fn # "none" =>
          BalanceSum(balance, Accounts) = BalanceSum(last.pre.balance, Accounts)

\* A successful batch in which the sender paid itself and then another
\* account.
C28_Witness ==
    /\ IsBatchCall /\ last.status = "ok" /\ Len(last.recipients) = 2
    /\ last.recipients[1] = last.sender /\ last.amounts[1] > 0
    /\ last.recipients[2] # last.sender /\ last.amounts[2] > 0
    /\ balance[last.recipients[2]] > last.pre.balance[last.recipients[2]]

\* C29: a successful send_move_to_multiple changes the balance of no account
\* other than the sender and the recipients named at a position with a
\* positive amount, and changes the registration of no account, sender and
\* recipients included.
C29_Frame ==
    (IsBatchCall /\ last.status = "ok") =>
        /\ \A a \in Accounts :
              balance[a] # last.pre.balance[a] =>
                  \/ a = last.sender
                  \/ \E i \in 1..Len(last.recipients) :
                        last.recipients[i] = a /\ last.amounts[i] > 0
        /\ registered = last.pre.registered

\* A successful batch that paid one account, named a second, unregistered one
\* with amount 0 and left a third account out.
C29_Witness ==
    /\ IsBatchCall /\ last.status = "ok" /\ Len(last.recipients) = 2
    /\ last.amounts[1] > 0 /\ last.recipients[1] # last.sender
    /\ balance[last.recipients[1]] > last.pre.balance[last.recipients[1]]
    /\ last.amounts[2] = 0 /\ ~registered[last.recipients[2]]
    /\ last.recipients[2] # last.recipients[1]
    /\ balance[last.recipients[2]] = last.pre.balance[last.recipients[2]]

====
